---- MODULE Spec2Model ----
(***************************************************************************)
(* Victron MQTT Explorer (tools/victron_mqtt_explorer.py).                 *)
(*                                                                         *)
(* The explorer object (topics, device_types, measurements,                *)
(* message_count, running, connected), the paho callbacks that change it,  *)
(* the session driver run() / main(), and the two configuration            *)
(* generators.  Strings are sequences of one-character strings, so that    *)
(* str.split, str.join, string concatenation and sorted() are computed,    *)
(* not assumed.                                                            *)
(***************************************************************************)
EXTENDS Integers, Sequences, FiniteSets, TLC

(***************************************************************************)
(* Bounds of the model.                                                    *)
(***************************************************************************)
\* messages delivered to one explorer in SpecIngest
MaxIngest == 2
\* messages delivered during one session in Spec
MaxMsgs == 2
\* messages delivered before the generators are called in SpecConfig
MaxCfgMsgs == 3
\* messages delivered on the single topic of SpecFifo, beyond the history size
FifoExtra == 1
\* messages delivered to each of the two explorers of SpecOrder
MaxRptMsgs == 3

MaxOrder == 3

(***************************************************************************)
(* Program constants.                                                      *)
(***************************************************************************)
\* TopicData.add_value: "if len(self.values) > 10"
HistMax == 10
\* _on_message: "len(parts) >= 4"
MinParts == 4

(***************************************************************************)
(* Strings.                                                                *)
(***************************************************************************)
\* Unicode code point of a character: the order Python compares strings by.
CodePoint(c) ==
    CASE c = "#" -> 35 [] c = "(" -> 40 [] c = ")" -> 41
      [] c = "/" -> 47 [] c = "0" -> 48 [] c = "1" -> 49
      [] c = "N" -> 78 [] c = "P" -> 80 [] c = "R" -> 82 [] c = "S" -> 83
      [] c = "Y" -> 89 [] c = "b" -> 98 [] c = "o" -> 111 [] c = "p" -> 112
      [] c = "r" -> 114 [] c = "s" -> 115 [] c = "t" -> 116

\* a < b for Python str: lexicographic by code point, a proper prefix first.
RECURSIVE StrLess(_, _)
StrLess(a, b) ==
    IF b = << >> THEN FALSE
    ELSE IF a = << >> THEN TRUE
    ELSE IF Head(a) = Head(b) THEN StrLess(Tail(a), Tail(b))
    ELSE CodePoint(Head(a)) < CodePoint(Head(b))

\* str.split('/'): the list of segments between separators; never empty.
RECURSIVE SplitFrom(_, _, _)
SplitFrom(s, i, cur) ==
    IF i > Len(s) THEN << cur >>
    ELSE IF s[i] = "/" THEN << cur >> \o SplitFrom(s, i + 1, << >>)
    ELSE SplitFrom(s, i + 1, Append(cur, s[i]))

Split(s) == SplitFrom(s, 1, << >>)

\* sep.join(parts)
RECURSIVE Join(_, _)
Join(sep, parts) ==
    IF parts = << >> THEN << >>
    ELSE IF Len(parts) = 1 THEN parts[1]
    ELSE parts[1] \o sep \o Join(sep, Tail(parts))

\* parts[4:] of a Python list (0-based slice): the elements from the fifth on.
SliceFrom4(parts) == SubSeq(parts, 5, Len(parts))

(***************************************************************************)
(* sorted(): an iterable is enumerated in some order (for a set or a dict  *)
(* of strings the order is arbitrary) and the enumeration is sorted.       *)
(***************************************************************************)
\* every enumeration order of a finite set
Enumerations(S) ==
    { q \in [1..Cardinality(S) -> S] : \A x \in S : \E i \in DOMAIN q : q[i] = x }

RECURSIVE Insert(_, _)
Insert(x, sortedSeq) ==
    IF sortedSeq = << >> THEN << x >>
    ELSE IF StrLess(Head(sortedSeq), x)
         THEN << Head(sortedSeq) >> \o Insert(x, Tail(sortedSeq))
         ELSE << x >> \o sortedSeq

SortedUnsorted(q) == q

RECURSIVE Sorted(_)
Sorted(q) == IF q = << >> THEN << >> ELSE Insert(Head(q), Sorted(Tail(q)))

\* a sequence of strings is in strictly ascending order
IsAscending(q) == \A i \in 1..(Len(q) - 1) : StrLess(q[i], q[i + 1])

(***************************************************************************)
(* Python values, each with the name of its type (type(value).__name__).   *)
(***************************************************************************)
None == [ty |-> "NoneType", v |-> "None"]
Int120 == [ty |-> "int", v |-> "120"]
Int7 == [ty |-> "int", v |-> "7"]
Float55 == [ty |-> "float", v |-> "55.3"]
Text(s) == [ty |-> "str", v |-> s]

TypeName(value) == value.ty

(***************************************************************************)
(* Payloads: the bytes of a message, described by what bytes.decode and    *)
(* json.loads make of them.                                                *)
(*   utf8     the bytes are valid UTF-8                                    *)
(*   json     what json.loads returns for the text: "invalid" (it raises   *)
(*            JSONDecodeError) or the type of the document                 *)
(*   has      a dict document has the key "value"                          *)
(*   value    the value under that key                                     *)
(*   text     the bytes decoded with errors='replace'                      *)
(***************************************************************************)
PObjInt == [raw |-> "{\"value\": 120}", utf8 |-> TRUE, json |-> "dict", has |-> TRUE,
            value |-> Int120, text |-> "{\"value\": 120}"]
PObjInt7 == [raw |-> "{\"value\": 7}", utf8 |-> TRUE, json |-> "dict", has |-> TRUE,
             value |-> Int7, text |-> "{\"value\": 7}"]
PObjFloat == [raw |-> "{\"value\": 55.3}", utf8 |-> TRUE, json |-> "dict", has |-> TRUE,
              value |-> Float55, text |-> "{\"value\": 55.3}"]
PObjNull == [raw |-> "{\"value\": null}", utf8 |-> TRUE, json |-> "dict", has |-> TRUE,
             value |-> None, text |-> "{\"value\": null}"]
PObjNoValue == [raw |-> "{\"x\": 1}", utf8 |-> TRUE, json |-> "dict", has |-> FALSE,
                value |-> None, text |-> "{\"x\": 1}"]
PText == [raw |-> "hello", utf8 |-> TRUE, json |-> "invalid", has |-> FALSE,
          value |-> None, text |-> "hello"]
PEmpty == [raw |-> "", utf8 |-> TRUE, json |-> "invalid", has |-> FALSE,
           value |-> None, text |-> ""]
PBadUtf8 == [raw |-> "\\xff", utf8 |-> FALSE, json |-> "invalid", has |-> FALSE,
             value |-> None, text |-> "\\ufffd"]
PNumber == [raw |-> "5", utf8 |-> TRUE, json |-> "int", has |-> FALSE,
            value |-> None, text |-> "5"]
PList == [raw |-> "[\"battery/+/Soc\"]", utf8 |-> TRUE, json |-> "list", has |-> FALSE,
          value |-> None, text |-> "[\"battery/+/Soc\"]"]
PString == [raw |-> "\"abc\"", utf8 |-> TRUE, json |-> "str", has |-> FALSE,
            value |-> None, text |-> "\"abc\""]
PNull == [raw |-> "null", utf8 |-> TRUE, json |-> "NoneType", has |-> FALSE,
          value |-> None, text |-> "null"]

Payloads == {PObjInt, PObjInt7, PObjFloat, PObjNull, PObjNoValue, PText, PEmpty,
             PBadUtf8, PNumber, PList, PString, PNull}

\* msg.payload.decode('utf-8', errors='replace')
DecodeReplace(p) == Text(p.text)

\* The try / except of _on_message.  json.loads(msg.payload.decode('utf-8'))
\* raises UnicodeDecodeError or JSONDecodeError, both caught; payload.get
\* exists only on a dict, and on any other document raises AttributeError,
\* which the except clause does not name.
DecodeAbsentAsText(p) ==
    IF ~p.utf8 THEN [exc |-> "none", value |-> DecodeReplace(p)]
    ELSE IF p.json = "invalid" THEN [exc |-> "none", value |-> DecodeReplace(p)]
    ELSE IF p.json = "dict"
         THEN [exc |-> "none", value |-> IF p.has THEN p.value ELSE DecodeReplace(p)]
    ELSE [exc |-> "AttributeError", value |-> None]

Decode(p) ==
    IF ~p.utf8 THEN [exc |-> "none", value |-> DecodeReplace(p)]
    ELSE IF p.json = "invalid" THEN [exc |-> "none", value |-> DecodeReplace(p)]
    ELSE IF p.json = "dict"
         THEN [exc |-> "none", value |-> IF p.has THEN p.value ELSE None]
    ELSE [exc |-> "AttributeError", value |-> None]

(***************************************************************************)
(* Topics.                                                                 *)
(***************************************************************************)
portal_id == << "p" >>

TBatt0Soc == << "N", "/", "p", "/", "b", "/", "0", "/", "S" >>
TBatt1Soc == << "N", "/", "p", "/", "b", "/", "1", "/", "S" >>
TSolarYield == << "N", "/", "p", "/", "s", "/", "0", "/", "Y", "/", "P" >>
TBatt0 == << "N", "/", "p", "/", "b", "/", "0" >>
TShort == << "N", "/", "p", "/", "b" >>
TReadBack == << "R", "/", "p", "/", "b", "/", "0", "/", "S" >>

Topics == {TBatt0Soc, TBatt1Soc, TSolarYield, TBatt0, TShort, TReadBack}

(***************************************************************************)
(* State.                                                                  *)
(*   topics, device_types, measurements, message_count, running, connected *)
(*              the attributes of the explorer set in __init__             *)
(*   settings   the constructor's connection settings                      *)
(*   pc         where the main thread is in main() / run()                 *)
(*   link       the client's connection to the broker                      *)
(*   loopAlive  the client's network thread (loop_start .. loop_stop)      *)
(*   stopCause  how the sampling loop of run() ended                       *)
(*   exc        the exception the last _on_message call let escape         *)
(*   delivered  per topic, the payloads _on_message was called with, in    *)
(*              arrival order (history)                                    *)
(*   basicOut, optOut  what generate_telegraf_config and                   *)
(*              generate_optimized_config last returned                    *)
(*   prevBasic, prevOpt  what the call before the last returned (history)  *)
(*   reportOut  what print_report last printed                             *)
(*   prevReport what the print_report before the last printed (history)    *)
(*   summaryOut the summary save_report last wrote                         *)
(*   other, delivered2  a second explorer and its history, for comparing   *)
(*              two runs                                                   *)
(***************************************************************************)
VARIABLES topics, device_types, measurements, message_count, running, connected,
          settings, pc, link, loopAlive, stopCause, exc, delivered,
          basicOut, optOut, prevBasic, prevOpt, reportOut, prevReport,
          summaryOut, other, delivered2

explorerVars == << topics, device_types, measurements, message_count >>
sessionVars == << running, connected, pc, link, loopAlive, stopCause >>
configVars == << basicOut, optOut, prevBasic, prevOpt >>
reportVars == << reportOut, prevReport >>
outVars == << configVars, reportVars, summaryOut >>
otherVars == << other, delivered2 >>
vars == << topics, device_types, measurements, message_count, running, connected,
           settings, pc, link, loopAlive, stopCause, exc, delivered,
           basicOut, optOut, prevBasic, prevOpt, reportOut, prevReport,
           summaryOut, other, delivered2 >>

\* an empty dict
EmptyDict == << >>

(***************************************************************************)
(* TopicData                                                               *)
(***************************************************************************)
\* TopicData(topic=topic): the dataclass defaults (the two timestamps are
\* not modelled: nothing reads them)
NewTopicData(topic) ==
    [topic |-> topic, values |-> << >>, value_types |-> {}, count |-> 0]

\* TopicData.add_value
AddValue(td, value) ==
    LET appended == Append(td.values, value)
    IN  [td EXCEPT !.count = @ + 1,
                   !.values = IF Len(appended) > HistMax THEN Tail(appended)
                              ELSE appended,
                   !.value_types = @ \cup {TypeName(value)}]

(***************************************************************************)
(* defaultdict operations                                                  *)
(***************************************************************************)
\* d[k], creating the default when k is missing ("dflt" is the factory's value)
GetOrDefault(d, k, dflt) == IF k \in DOMAIN d THEN d[k] ELSE dflt

\* d with d[k] set to val
Put(d, k, val) == [x \in DOMAIN d \cup {k} |-> IF x = k THEN val ELSE d[x]]

SetAddOverwrite(d, k, x) == Put(d, k, {x})

\* d[k].add(x) on a defaultdict(set)
SetAdd(d, k, x) == Put(d, k, GetOrDefault(d, k, {}) \cup {x})

(***************************************************************************)
(* VictronMQTTExplorer._on_message, as a function of the explorer          *)
(*   e = [topics, device_types, measurements, message_count]               *)
(* Returns the explorer after the call and the exception that escaped.     *)
(***************************************************************************)
\* "if len(parts) >= 4 and parts[0] == 'N'"
IsNotification(parts) == Len(parts) >= MinParts /\ parts[1] = << "N" >>

\* "'/'.join(parts[4:]) if len(parts) > 4 else ''"
FieldPath(parts) ==
    IF Len(parts) > 4 THEN Join(<< "/" >>, SliceFrom4(parts)) ELSE << >>

\* "type(value).__name__ if value is not None else 'NoneType'"
ValueType(value) == IF value # None THEN TypeName(value) ELSE "NoneType"

\* lines 122-125: store topic data
Store(tps, topic, value) ==
    Put(tps, topic, AddValue(GetOrDefault(tps, topic, NewTopicData(topic)), value))

\* lines 127-138: the taxonomy update
Classify(e, topic, value) ==
    LET parts == Split(topic)
        device_type == parts[3]
        instance == parts[4]
        path == FieldPath(parts)
    IN  IF IsNotification(parts)
        THEN [e EXCEPT
                !.device_types = SetAdd(@, device_type, instance),
                !.measurements =
                    Put(@, device_type,
                        SetAdd(GetOrDefault(@, device_type, EmptyDict), path,
                               ValueType(value)))]
        ELSE e

OnMessageFn(e, topic, payload) ==
    LET counted == [e EXCEPT !.message_count = @ + 1]
        d == Decode(payload)
    IN  IF d.exc # "none"
        THEN [ex |-> counted, exc |-> d.exc]
        ELSE [ex |-> Classify([counted EXCEPT
                                  !.topics = Store(@, topic, d.value)],
                              topic, d.value),
              exc |-> "none"]

\* the explorer held in the state variables
Ex ==
    [topics |-> topics, device_types |-> device_types,
     measurements |-> measurements, message_count |-> message_count]

\* __init__: the explorer's collections and counter
NewExplorer ==
    [topics |-> EmptyDict, device_types |-> EmptyDict,
     measurements |-> EmptyDict, message_count |-> 0]

\* the constructor's connection settings main() can pass
Settings ==
    { [server |-> << "h" >>, port |-> << "8883" >>, username |-> << >>,
       password |-> << >>, use_ssl |-> TRUE, insecure |-> TRUE],
      [server |-> << "h" >>, port |-> << "1883" >>, username |-> << "u" >>,
       password |-> << "w" >>, use_ssl |-> FALSE, insecure |-> TRUE] }

NoOut == << >>

Init ==
    /\ topics = NewExplorer.topics
    /\ device_types = NewExplorer.device_types
    /\ measurements = NewExplorer.measurements
    /\ message_count = NewExplorer.message_count
    /\ running = TRUE
    /\ connected = FALSE
    /\ settings \in Settings
    /\ pc = "main"
    /\ link = "closed"
    /\ loopAlive = FALSE
    /\ stopCause = "none"
    /\ exc = "none"
    /\ delivered = [t \in Topics |-> << >>]
    /\ basicOut = NoOut
    /\ optOut = NoOut
    /\ prevBasic = NoOut
    /\ prevOpt = NoOut
    /\ reportOut = NoOut
    /\ prevReport = NoOut
    /\ summaryOut = NoOut
    /\ other = NewExplorer
    /\ delivered2 = [t \in Topics |-> << >>]

\* the effect of one _on_message(client, userdata, msg) call on the state
Handle(topic, payload) ==
    LET r == OnMessageFn(Ex, topic, payload)
    IN  /\ topics' = r.ex.topics
        /\ device_types' = r.ex.device_types
        /\ measurements' = r.ex.measurements
        /\ message_count' = r.ex.message_count
        /\ exc' = r.exc
        /\ delivered' = [delivered EXCEPT ![topic] = Append(@, payload)]

(***************************************************************************)
(* SpecIngest: _on_message called directly on a new explorer, with every   *)
(* topic and payload of the model.                                         *)
(***************************************************************************)
\* the default connection settings only
InitIngest == Init /\ settings.use_ssl

Ingest ==
    /\ message_count < MaxIngest
    /\ \E topic \in Topics, payload \in Payloads : Handle(topic, payload)
    /\ UNCHANGED << sessionVars, settings, outVars, otherVars >>

NextIngest == Ingest

SpecIngest == InitIngest /\ [][NextIngest]_vars

(***************************************************************************)
(* Configuration text.  A generator builds a list of lines and returns     *)
(* '\n'.join(lines); no line holds a line break, so the text is modelled   *)
(* as the list.  A line is its literal text k, with the interpolated       *)
(* strings a and b where the source's f-string has {...}.                  *)
(***************************************************************************)
Ln(k) == [k |-> k, a |-> << >>, b |-> << >>]
Ln1(k, a) == [k |-> k, a |-> a, b |-> << >>]
Ln2(k, a, b) == [k |-> k, a |-> a, b |-> b]

\* the values datetime.now().isoformat() can return in the model
Clock == { << "0" >>, << "1" >> }

\* str.upper()
UpperChar(c) ==
    CASE c = "b" -> "B" [] c = "p" -> "P" [] c = "s" -> "S" [] OTHER -> c

Upper(str) == [i \in DOMAIN str |-> UpperChar(str[i])]

\* _get_mqtt_url
GetMqttUrl(cfg) ==
    (IF cfg.use_ssl THEN << "s", "s", "l" >> ELSE << "t", "c", "p" >>)
        \o << ":", "/", "/" >> \o cfg.server \o << ":" >> \o cfg.port

\* f"N/{self.portal_id}/{device_type}/#"
PatternOtherPortal(device_type) ==
    << "N", "/" >> \o << "+" >> \o << "/" >> \o device_type \o << "/", "#" >>

Pattern(device_type) ==
    << "N", "/" >> \o portal_id \o << "/" >> \o device_type \o << "/", "#" >>

\* lines 244-248: the maximum topic depth (computed, and not used afterwards)
MaxDepth(e) ==
    LET depths == { Len(Split(t)) : t \in DOMAIN e.topics } \cup {0}
    IN  CHOOSE d \in depths : \A x \in depths : x <= d

\* lines 250-257: the set of wildcard patterns, one per device type seen in
\* a notification topic
TopicPatterns(e) ==
    { Pattern(Split(t)[3]) : t \in { u \in DOMAIN e.topics : IsNotification(Split(u)) } }

\* "if self.username:" lines
Credentials(cfg) ==
    IF cfg.username # << >>
    THEN << Ln1("  username = \"{}\"", cfg.username),
            Ln1("  password = \"{}\"", cfg.password), Ln("") >>
    ELSE << >>

\* "if self.use_ssl and self.insecure:" lines
SkipVerify(cfg) ==
    IF cfg.use_ssl /\ cfg.insecure
    THEN << Ln("  insecure_skip_verify = true"), Ln("") >>
    ELSE << >>

TopicLine(pattern) == Ln1("    \"{}\",", pattern)
RuleTopicLine(rule) == Ln1("    topic = \"{}\"", rule)
ConsumerHeader == Ln("[[inputs.mqtt_consumer]]")
ClientIdLine(id) == Ln1("  client_id = \"{}\"", id)

Rule5 == << "N", "/", "+", "/", "+", "/", "+", "/", "+" >>
Rule6 == Rule5 \o << "/", "+" >>
Rule7 == Rule6 \o << "/", "+" >>

\* lines 299-317 with the rules chosen by the depth computed at 244-248
ParsingRulesByDepth(e) ==
    << Ln("  # Topic parsing - extracts device_type as measurement") >>
    \o (IF MaxDepth(e) >= 5
        THEN << Ln("  [[inputs.mqtt_consumer.topic_parsing]]"), RuleTopicLine(Rule5),
                Ln("    measurement = \"_/_/measurement/_/_\""),
                Ln("    tags = \"_/portal_id/_/instance/field\""), Ln("") >>
        ELSE << >>)
    \o (IF MaxDepth(e) >= 6
        THEN << Ln("  [[inputs.mqtt_consumer.topic_parsing]]"), RuleTopicLine(Rule6),
                Ln("    measurement = \"_/_/measurement/_/_/_\""),
                Ln("    tags = \"_/portal_id/_/instance/field/subfield\""), Ln("") >>
        ELSE << >>)
    \o (IF MaxDepth(e) >= 7
        THEN << Ln("  [[inputs.mqtt_consumer.topic_parsing]]"), RuleTopicLine(Rule7),
                Ln("    measurement = \"_/_/measurement/_/_/_/_\""),
                Ln("    tags = \"_/portal_id/_/instance/field/subfield/subfield2\""),
                Ln("") >>
        ELSE << >>)

\* lines 299-317: the topic parsing rules, the same whatever was recorded
ParsingRules(e) ==
    << Ln("  # Topic parsing - extracts device_type as measurement"),
       Ln("  [[inputs.mqtt_consumer.topic_parsing]]"),
       RuleTopicLine(Rule5),
       Ln("    measurement = \"_/_/measurement/_/_\""),
       Ln("    tags = \"_/portal_id/_/instance/field\""),
       Ln(""),
       Ln("  [[inputs.mqtt_consumer.topic_parsing]]"),
       RuleTopicLine(Rule6),
       Ln("    measurement = \"_/_/measurement/_/_/_\""),
       Ln("    tags = \"_/portal_id/_/instance/field/subfield\""),
       Ln(""),
       Ln("  [[inputs.mqtt_consumer.topic_parsing]]"),
       RuleTopicLine(Rule7),
       Ln("    measurement = \"_/_/measurement/_/_/_/_\""),
       Ln("    tags = \"_/portal_id/_/instance/field/subfield/subfield2\""),
       Ln("") >>

\* generate_telegraf_config.  now is what datetime.now() returns; patterns is
\* the order in which the set topic_patterns is enumerated by sorted().
GenerateTelegrafConfig(e, cfg, now, patterns) ==
    << Ln("# Telegraf Configuration - Victron Energy"),
       Ln("# Auto-generated by victron_mqtt_explorer.py"),
       Ln1("# Generated: {}", now),
       Ln1("# Portal ID: {}", portal_id),
       Ln("") >>
    \o << ConsumerHeader,
          Ln1("  servers = [\"{}\"]", GetMqttUrl(cfg)),
          Ln(""),
          ClientIdLine(<< "telegraf-victron" >>),
          Ln("  qos = 0"),
          Ln("  connection_timeout = \"30s\""),
          Ln("") >>
    \o Credentials(cfg)
    \o SkipVerify(cfg)
    \o << Ln("  topics = [") >>
    \o [i \in DOMAIN Sorted(patterns) |-> TopicLine(Sorted(patterns)[i])]
    \o << Ln("  ]"), Ln("") >>
    \o << Ln("  data_format = \"json_v2\""),
          Ln(""),
          Ln("  [[inputs.mqtt_consumer.json_v2]]"),
          Ln("    [[inputs.mqtt_consumer.json_v2.field]]"),
          Ln("      path = \"value\""),
          Ln("      rename = \"value\""),
          Ln("") >>
    \o ParsingRules(e)

\* lines 365-406: the ingestion block of one device type; instances is the
\* order in which the set of its instances is enumerated by sorted()
DeviceBlock(cfg, device_type, instances) ==
    << Ln2("# {} - instances: {}", Upper(device_type),
           Join(<< ",", " " >>, Sorted(instances))),
       ConsumerHeader,
       Ln1("  name_override = \"{}\"", device_type),
       Ln1("  servers = [\"{}\"]", GetMqttUrl(cfg)),
       ClientIdLine(<< "telegraf-victron-" >> \o device_type),
       Ln("  qos = 0"),
       Ln("") >>
    \o Credentials(cfg)
    \o SkipVerify(cfg)
    \o << Ln("  topics = ["),
          TopicLine(Pattern(device_type)),
          Ln("  ]"),
          Ln(""),
          Ln("  data_format = \"json_v2\""),
          Ln(""),
          Ln("  [[inputs.mqtt_consumer.json_v2]]"),
          Ln("    [[inputs.mqtt_consumer.json_v2.field]]"),
          Ln("      path = \"value\""),
          Ln(""),
          Ln("  # Parse instance from topic"),
          Ln("  [[inputs.mqtt_consumer.topic_parsing]]"),
          RuleTopicLine(Rule5),
          Ln("    tags = \"_/_/_/instance/field\""),
          Ln(""),
          Ln("  [[inputs.mqtt_consumer.topic_parsing]]"),
          RuleTopicLine(Rule6),
          Ln("    tags = \"_/_/_/instance/field/subfield\""),
          Ln("") >>

\* the for loop of lines 361-406 over an already ordered list of device types
RECURSIVE DeviceBlocks(_, _, _)
DeviceBlocks(cfg, ordered, instances) ==
    IF ordered = << >> THEN << >>
    ELSE DeviceBlock(cfg, Head(ordered), instances[Head(ordered)])
         \o DeviceBlocks(cfg, Tail(ordered), instances)

\* generate_optimized_config.  keys is the order in which device_types.keys()
\* is enumerated, instances[d] the order in which device_types[d] is.
GenerateOptimizedConfig(e, cfg, now, keys, instances) ==
    << Ln("# Optimized Telegraf Configuration for Victron Energy"),
       Ln1("# Auto-generated: {}", now),
       Ln1("# Portal ID: {}", portal_id),
       Ln("#"),
       Ln("# This configuration:"),
       Ln("#   - Flattens nested paths into field names"),
       Ln("#   - Converts string values to appropriate types"),
       Ln("#   - Groups related metrics for easier querying"),
       Ln(""),
       Ln("[global_tags]"),
       Ln1("  portal_id = \"{}\"", portal_id),
       Ln(""),
       Ln("[agent]"),
       Ln("  interval = \"10s\""),
       Ln("  round_interval = true"),
       Ln("  metric_batch_size = 1000"),
       Ln("  metric_buffer_limit = 10000"),
       Ln("  flush_interval = \"10s\""),
       Ln(""),
       Ln("###############################################################################"),
       Ln("#                            OUTPUT PLUGINS                                   #"),
       Ln("###############################################################################"),
       Ln(""),
       Ln("[[outputs.influxdb_v2]]"),
       Ln("  urls = [\"${TELEGRAF_INFLUXDB_URL}\"]"),
       Ln("  token = \"${TELEGRAF_INFLUXDB_TOKEN}\""),
       Ln("  organization = \"${TELEGRAF_INFLUXDB_ORG}\""),
       Ln("  bucket = \"${TELEGRAF_INFLUXDB_BUCKET}\""),
       Ln(""),
       Ln("###############################################################################"),
       Ln("#                            INPUT PLUGINS                                    #"),
       Ln("###############################################################################"),
       Ln("") >>
    \o DeviceBlocks(cfg, Sorted(keys), instances)
    \o << Ln("###############################################################################"),
          Ln("#                          PROCESSOR PLUGINS                                  #"),
          Ln("###############################################################################"),
          Ln(""),
          Ln("# Rename nested fields for easier querying"),
          Ln("[[processors.rename]]"),
          Ln("  [[processors.rename.replace]]"),
          Ln("    field = \"value\""),
          Ln("    dest = \"measurement_value\""),
          Ln("") >>

\* the orders in which the instance sets of e.device_types can be enumerated
InstanceEnumerations(e) ==
    { f \in [DOMAIN e.device_types ->
                UNION { Enumerations(e.device_types[d]) : d \in DOMAIN e.device_types }] :
        \A d \in DOMAIN e.device_types : f[d] \in Enumerations(e.device_types[d]) }

\* every text a call of generate_telegraf_config can return
BasicTexts(e, cfg) ==
    { GenerateTelegrafConfig(e, cfg, now, q) :
        now \in Clock, q \in Enumerations(TopicPatterns(e)) }

\* every text a call of generate_optimized_config can return
OptimizedTexts(e, cfg) ==
    UNION { { GenerateOptimizedConfig(e, cfg, now, q, f) :
                now \in Clock, q \in Enumerations(DOMAIN e.device_types) } :
            f \in InstanceEnumerations(e) }

(***************************************************************************)
(* print_report.  print() writes one line per call (two for a text that    *)
(* starts with a line break), so the report is modelled as the list of     *)
(* its lines.                                                              *)
(*                                                                         *)
(* Iteration orders.  A dict is iterated in insertion order, which the     *)
(* arrival order of the messages decides; a set of str is iterated in an   *)
(* order the hashes of its elements decide, and str hashes are salted      *)
(* afresh in every interpreter process.  "ord" holds the orders one run    *)
(* iterates in:                                                            *)
(*   devs       the keys of device_types, and of measurements, which gets  *)
(*              each device type when device_types does (lines 134, 138)   *)
(*   instances  per device type, its set of instances                      *)
(*   paths      per device type, the keys of measurements[device_type]     *)
(*   kinds      per device type and path, its set of type names            *)
(*   topics     the keys of topics                                         *)
(***************************************************************************)
\* "if len(items) <= 5"
GroupMax == 5

\* important_fields = ['Soc', 'Voltage', 'Current', 'Power', 'Temperature',
\* 'State'], with the field names as the model's topics abbreviate them
important_fields ==
    { << "S" >>, << "V" >>, << "C" >>, << "P" >>, << "T" >>, << "S", "t" >> }

\* a decimal digit
Digit(d) ==
    CASE d = 0 -> "0" [] d = 1 -> "1" [] d = 2 -> "2" [] d = 3 -> "3"
      [] d = 4 -> "4" [] d = 5 -> "5" [] d = 6 -> "6" [] d = 7 -> "7"
      [] d = 8 -> "8" [] d = 9 -> "9"

\* str(n) of a natural number, as an f-string formats it
RECURSIVE NumStr(_)
NumStr(n) ==
    IF n < 10 THEN << Digit(n) >> ELSE NumStr(n \div 10) \o << Digit(n % 10) >>

\* str(value), as an f-string formats it
Str(value) == << value.v >>

\* "'='*60" and "'-' * 40"
Rule60 == Ln("============================================================")
Rule40 == Ln("----------------------------------------")

\* "path.split('/')[0] if path else '(root)'"
GroupOf(path) ==
    IF path # << >> THEN Split(path)[1] ELSE << "(", "r", "o", "o", "t", ")" >>

\* "path or '(value)'"
PathLabel(path) ==
    IF path # << >> THEN path ELSE << "(", "v", "a", "l", "u", "e", ")" >>

\* the keys of "grouped" in insertion order: each group at the first of its
\* paths
RECURSIVE GroupKeys(_, _)
GroupKeys(paths, seen) ==
    IF paths = << >> THEN << >>
    ELSE IF GroupOf(Head(paths)) \in seen THEN GroupKeys(Tail(paths), seen)
    ELSE << GroupOf(Head(paths)) >>
            \o GroupKeys(Tail(paths), seen \cup {GroupOf(Head(paths))})

\* grouped[group]: the paths appended to it, in the order of the loop over
\* sorted(paths.keys())
GroupItems(paths, group) == SelectSeq(paths, LAMBDA p : GroupOf(p) = group)

\* "type_str = ', '.join(types)": the set is iterated as it is
TypeStr(types) ==
    LET names == [i \in DOMAIN types |-> << types[i] >>]
    IN  Join(<< ", " >>, names)

\* "for device_type, instances in sorted(self.device_types.items())"
RECURSIVE DeviceTypeLines(_, _, _)
DeviceTypeLines(e, ordered, instances) ==
    IF ordered = << >> THEN << >>
    ELSE LET device_type == Head(ordered)
         IN  << Ln2("  {a}: {b}", device_type,
                    NumStr(Cardinality(e.device_types[device_type]))
                      \o << " instance(s) - [" >>
                      \o Join(<< ", " >>, Sorted(instances[device_type]))
                      \o << "]" >>) >>
               \o DeviceTypeLines(e, Tail(ordered), instances)

\* "for path, types in items"
RECURSIVE ItemLines(_, _, _)
ItemLines(device_type, items, kinds) ==
    IF items = << >> THEN << >>
    ELSE << Ln2("    {a}: [{b}]", PathLabel(Head(items)),
                TypeStr(kinds[<< device_type, Head(items) >>])) >>
           \o ItemLines(device_type, Tail(items), kinds)

\* "for group, items in sorted(grouped.items())"
RECURSIVE GroupLines(_, _, _, _)
GroupLines(device_type, groups, paths, kinds) ==
    IF groups = << >> THEN << >>
    ELSE LET group == Head(groups)
             items == GroupItems(paths, group)
         IN  (IF Len(items) <= GroupMax
              THEN ItemLines(device_type, items, kinds)
              ELSE << Ln2("    {a}/... ({b} fields)", group, NumStr(Len(items))) >>)
               \o GroupLines(device_type, Tail(groups), paths, kinds)

\* "for device_type in sorted(self.measurements.keys())"
RECURSIVE MeasurementLines(_, _, _)
MeasurementLines(e, ordered, ord) ==
    IF ordered = << >> THEN << >>
    ELSE LET device_type == Head(ordered)
             paths == Sorted(ord.paths[device_type])
         IN  << Ln(""),
                Ln2("[{a}] - {b} unique paths", device_type,
                    NumStr(Cardinality(DOMAIN e.measurements[device_type]))) >>
               \o GroupLines(device_type, Sorted(GroupKeys(paths, {})), paths,
                             ord.kinds)
               \o MeasurementLines(e, Tail(ordered), ord)

\* "for topic, data in sorted(self.topics.items())"
RECURSIVE SampleLines(_, _)
SampleLines(e, ordered) ==
    IF ordered = << >> THEN << >>
    ELSE LET topic == Head(ordered)
             data == e.topics[topic]
             path_parts == Split(topic)
             field_name == path_parts[Len(path_parts)]
             last_value == IF data.values # << >>
                           THEN Str(data.values[Len(data.values)])
                           ELSE << "N/A" >>
         IN  (IF Len(path_parts) > 4 /\ field_name \in important_fields
              THEN << Ln1("  {a}", topic),
                      Ln2("    -> {a} (seen {b}x)", last_value,
                          NumStr(data.count)) >>
              ELSE << >>)
               \o SampleLines(e, Tail(ordered))

\* the text print_report prints when it iterates in the orders "ord"
PrintReportFn(e, ord) ==
    << Ln(""), Rule60, Ln("DISCOVERY REPORT"), Rule60, Ln(""),
       Ln("DEVICE TYPES FOUND:"), Rule40 >>
      \o DeviceTypeLines(e, Sorted(ord.devs), ord.instances)
      \o << Ln(""), Ln(""), Ln("MEASUREMENTS STRUCTURE:"), Rule40 >>
      \o MeasurementLines(e, Sorted(ord.devs), ord)
      \o << Ln(""), Ln(""), Ln("SAMPLE VALUES (last received):"), Rule40 >>
      \o SampleLines(e, Sorted(ord.topics))

\* per device type, an iteration order of the keys of its measurements
PathEnumerations(e) ==
    { f \in [DOMAIN e.measurements ->
                UNION { Enumerations(DOMAIN e.measurements[d]) :
                          d \in DOMAIN e.measurements }] :
        \A d \in DOMAIN e.measurements :
            f[d] \in Enumerations(DOMAIN e.measurements[d]) }

\* the (device type, path) pairs of measurements
FieldKeys(e) ==
    UNION { { << d, path >> : path \in DOMAIN e.measurements[d] } :
              d \in DOMAIN e.measurements }

\* per device type and path, an iteration order of its set of type names
KindEnumerations(e) ==
    { f \in [FieldKeys(e) ->
                UNION { Enumerations(e.measurements[k[1]][k[2]]) : k \in FieldKeys(e) }] :
        \A k \in FieldKeys(e) : f[k] \in Enumerations(e.measurements[k[1]][k[2]]) }

\* the iteration orders a run can have
ReportOrders(e) ==
    { [devs |-> devs, instances |-> instances, paths |-> paths, kinds |-> kinds,
       topics |-> tps] :
        devs \in Enumerations(DOMAIN e.device_types),
        instances \in InstanceEnumerations(e),
        paths \in PathEnumerations(e),
        kinds \in KindEnumerations(e),
        tps \in Enumerations(DOMAIN e.topics) }

\* every text print_report can print
ReportTexts(e) == { PrintReportFn(e, ord) : ord \in ReportOrders(e) }

(***************************************************************************)
(* The summary of save_report: the dict json.dump writes.  list(v) of a    *)
(* set lists its elements in the set's iteration order.                    *)
(***************************************************************************)
Summary(e, cfg, now, instances, kinds) ==
    [portal_id |-> portal_id,
     server |-> cfg.server,
     port |-> cfg.port,
     discovered_at |-> now,
     total_messages |-> e.message_count,
     total_topics |-> Cardinality(DOMAIN e.topics),
     device_types |-> instances,
     measurements |->
        [d \in DOMAIN e.measurements |->
            [path \in DOMAIN e.measurements[d] |-> kinds[<< d, path >>]]]]

\* every summary a call of save_report can write
Summaries(e, cfg) ==
    { Summary(e, cfg, now, instances, kinds) :
        now \in Clock, instances \in InstanceEnumerations(e),
        kinds \in KindEnumerations(e) }

(***************************************************************************)
(* The session: main() calls run(), print_report(), save_report().  The    *)
(* client's network thread, alive from loop_start() to loop_stop(), calls  *)
(* the callbacks.                                                          *)
(*   pc: "main"      before run()                                          *)
(*       "connected" connect() returned True                               *)
(*       "sampling"  in the while loop of run()                            *)
(*       "stopping"  the while loop ended                                  *)
(*       "stopped"   loop_stop() returned                                  *)
(*       "collected" run() returned                                        *)
(*       "reported"  print_report() returned                               *)
(*       "saved"     save_report() returned                                *)
(*       "killed"    a KeyboardInterrupt outside the try ended the process *)
(***************************************************************************)
SessTopics == {TBatt0Soc, TBatt1Soc, TSolarYield, TReadBack}
SessPayloads == {PObjInt, PList}

\* pcs at which run() has returned
AfterRun == {"collected", "reported", "saved"}

\* connect(): the client connects and returns True, or raises and
\* connect() returns False, on which run() returns at once
Connect ==
    /\ pc = "main"
    /\ \/ /\ link' = "await_connack"
          /\ pc' = "connected"
          /\ UNCHANGED stopCause
       \/ /\ pc' = "collected"
          /\ stopCause' = "connect_error"
          /\ UNCHANGED link
    /\ UNCHANGED << explorerVars, running, connected, settings, loopAlive, exc,
                    delivered, outVars, otherVars >>

\* self.client.loop_start()
LoopStart ==
    /\ pc = "connected"
    /\ loopAlive' = TRUE
    /\ pc' = "sampling"
    /\ UNCHANGED << explorerVars, running, connected, settings, link, stopCause,
                    exc, delivered, outVars, otherVars >>

\* the while loop of run() ends: the duration has elapsed, self.running is
\* False, or KeyboardInterrupt was raised inside the try
LoopExit ==
    /\ pc = "sampling"
    /\ \/ stopCause' = "timer"
       \/ ~running /\ stopCause' = "refused"
       \/ stopCause' = "interrupt"
    /\ pc' = "stopping"
    /\ UNCHANGED << explorerVars, running, connected, settings, link, loopAlive,
                    exc, delivered, outVars, otherVars >>

LoopStopNoJoin ==
    /\ pc = "stopping"
    /\ pc' = "stopped"
    /\ UNCHANGED << explorerVars, running, connected, settings, link, loopAlive,
                    stopCause, exc, delivered, outVars, otherVars >>

\* self.client.loop_stop(): the network thread is told to end and is joined
LoopStop ==
    /\ pc = "stopping"
    /\ loopAlive' = FALSE
    /\ pc' = "stopped"
    /\ UNCHANGED << explorerVars, running, connected, settings, link, stopCause,
                    exc, delivered, outVars, otherVars >>

\* self.client.disconnect(), after which run() returns
Disconnect ==
    /\ pc = "stopped"
    /\ link' = "closed"
    /\ pc' = "collected"
    /\ UNCHANGED << explorerVars, running, connected, settings, loopAlive,
                    stopCause, exc, delivered, outVars, otherVars >>

\* KeyboardInterrupt raised in the main thread outside the try of run():
\* nothing catches it and the process ends, its threads with it
Kill ==
    /\ pc \in {"main", "connected", "stopping", "stopped", "collected", "reported"}
    /\ pc' = "killed"
    /\ loopAlive' = FALSE
    /\ link' = "closed"
    /\ UNCHANGED << explorerVars, running, connected, settings, stopCause, exc,
                    delivered, outVars, otherVars >>

\* _on_connect, called by the network thread with the broker's CONNACK
OnConnect ==
    /\ loopAlive
    /\ link = "await_connack"
    /\ \/ /\ connected' = TRUE
          /\ link' = "subscribed"
          /\ UNCHANGED running
       \/ /\ running' = FALSE
          /\ link' = "refused"
          /\ UNCHANGED connected
    /\ UNCHANGED << explorerVars, settings, pc, loopAlive, stopCause, exc,
                    delivered, outVars, otherVars >>

\* _on_disconnect, called by the network thread when the connection is
\* lost; the thread then connects again
OnDisconnect ==
    /\ loopAlive
    /\ link \in {"subscribed", "refused"}
    /\ connected' = FALSE
    /\ link' = "await_connack"
    /\ UNCHANGED << explorerVars, running, settings, pc, loopAlive, stopCause,
                    exc, delivered, outVars, otherVars >>

\* _on_message, called by the network thread with a message of a subscribed
\* topic.  An exception that escapes the callback ends the network thread,
\* unless the client suppresses callback exceptions.
OnMessage ==
    /\ loopAlive
    /\ link = "subscribed"
    /\ message_count < MaxMsgs
    /\ \E topic \in SessTopics, payload \in SessPayloads : Handle(topic, payload)
    /\ \/ loopAlive' = TRUE
       \/ exc' # "none" /\ loopAlive' = FALSE
    /\ UNCHANGED << running, connected, settings, pc, link, stopCause, outVars,
                    otherVars >>

\* print_report(): the report is printed
PrintReport ==
    /\ pc = "collected"
    /\ pc' = "reported"
    /\ \E text \in ReportTexts(Ex) :
          /\ reportOut' = text
          /\ prevReport' = reportOut
    /\ UNCHANGED << explorerVars, running, connected, settings, link, loopAlive,
                    stopCause, exc, delivered, configVars, summaryOut,
                    otherVars >>

\* save_report(): both generators are called and their texts written, then
\* the summary
SaveReport ==
    /\ pc = "reported"
    /\ pc' = "saved"
    /\ \E text \in BasicTexts(Ex, settings) :
          /\ basicOut' = text
          /\ prevBasic' = basicOut
    /\ \E text \in OptimizedTexts(Ex, settings) :
          /\ optOut' = text
          /\ prevOpt' = optOut
    /\ summaryOut' \in Summaries(Ex, settings)
    /\ UNCHANGED << explorerVars, running, connected, settings, link, loopAlive,
                    stopCause, exc, delivered, reportVars, otherVars >>

Next ==
    \/ Connect
    \/ LoopStart
    \/ LoopExit
    \/ LoopStop
    \/ Disconnect
    \/ Kill
    \/ OnConnect
    \/ OnDisconnect
    \/ OnMessage
    \/ PrintReport
    \/ SaveReport

Spec == Init /\ [][Next]_vars

(***************************************************************************)
(* SpecConfig: messages are handed to _on_message of a new explorer, then  *)
(* the generators are called, any number of times, on the state reached.   *)
(***************************************************************************)
CfgTopics == Topics
CfgPayloads == {PObjInt}

\* messages arrive until the first generator call
Feed ==
    /\ message_count < MaxCfgMsgs
    /\ basicOut = NoOut
    /\ optOut = NoOut
    /\ \E topic \in CfgTopics, payload \in CfgPayloads : Handle(topic, payload)
    /\ UNCHANGED << sessionVars, settings, outVars, otherVars >>

\* a call of generate_telegraf_config()
CallGenerateTelegrafConfig ==
    /\ \E text \in BasicTexts(Ex, settings) :
          /\ basicOut' = text
          /\ prevBasic' = basicOut
    /\ UNCHANGED << explorerVars, sessionVars, settings, exc, delivered, optOut,
                    prevOpt, reportVars, summaryOut, otherVars >>

\* a call of generate_optimized_config()
CallGenerateOptimizedConfig ==
    /\ \E text \in OptimizedTexts(Ex, settings) :
          /\ optOut' = text
          /\ prevOpt' = optOut
    /\ UNCHANGED << explorerVars, sessionVars, settings, exc, delivered, basicOut,
                    prevBasic, reportVars, summaryOut, otherVars >>

NextConfig ==
    \/ Feed
    \/ CallGenerateTelegrafConfig
    \/ CallGenerateOptimizedConfig

SpecConfig == Init /\ [][NextConfig]_vars

(***************************************************************************)
(* SpecReport: messages are handed to _on_message of a new explorer, then  *)
(* print_report is called on the state reached, by one run and by          *)
(* another.                                                                *)
(***************************************************************************)
RptTopics == {TBatt0Soc, TBatt1Soc, TSolarYield, TBatt0}
RptPayloads == {PObjInt, PObjFloat}

\* messages arrive until the first report
FeedReport ==
    /\ message_count < MaxRptMsgs
    /\ reportOut = NoOut
    /\ \E topic \in RptTopics, payload \in RptPayloads : Handle(topic, payload)
    /\ UNCHANGED << sessionVars, settings, outVars, otherVars >>

\* a call of print_report()
CallPrintReport ==
    /\ \E text \in ReportTexts(Ex) :
          /\ reportOut' = text
          /\ prevReport' = reportOut
    /\ UNCHANGED << explorerVars, sessionVars, settings, exc, delivered,
                    configVars, summaryOut, otherVars >>

NextReport == FeedReport \/ CallPrintReport

SpecReport == InitIngest /\ [][NextReport]_vars

(***************************************************************************)
(* SpecFifo: _on_message called on a new explorer with messages of one     *)
(* topic, more of them than the history holds.                             *)
(***************************************************************************)
FifoTopics == {TBatt0Soc}
FifoPayloads == {PObjInt, PObjInt7, PList}

IngestFifo ==
    /\ message_count < HistMax + FifoExtra
    /\ \E topic \in FifoTopics, payload \in FifoPayloads : Handle(topic, payload)
    /\ UNCHANGED << sessionVars, settings, outVars, otherVars >>

NextFifo == IngestFifo

SpecFifo == InitIngest /\ [][NextFifo]_vars

(***************************************************************************)
(* SpecOrder: two new explorers.  The first is handed messages in some     *)
(* order; the second is handed the same messages again, in any order.      *)
(***************************************************************************)
OrderTopics == {TBatt0Soc, TBatt1Soc, TSolarYield}
OrderPayloads == {PObjInt, PText, PList}

\* how many times x occurs in the sequence q
Occurrences(q, x) == Cardinality({ i \in DOMAIN q : q[i] = x })

IngestFirst ==
    /\ message_count < MaxOrder
    /\ \E topic \in OrderTopics, payload \in OrderPayloads : Handle(topic, payload)
    /\ UNCHANGED << sessionVars, settings, outVars, otherVars >>

\* a message the first explorer was handed is handed to the second
IngestSecond ==
    /\ \E topic \in OrderTopics, payload \in OrderPayloads :
          /\ Occurrences(delivered2[topic], payload)
                < Occurrences(delivered[topic], payload)
          /\ other' = OnMessageFn(other, topic, payload).ex
          /\ delivered2' = [delivered2 EXCEPT ![topic] = Append(@, payload)]
    /\ UNCHANGED << explorerVars, sessionVars, settings, exc, delivered, outVars >>

NextOrder == IngestFirst \/ IngestSecond

SpecOrder == InitIngest /\ [][NextOrder]_vars

(***************************************************************************)
(* Vocabulary of the properties.                                           *)
(***************************************************************************)
Min(a, b) == IF a < b THEN a ELSE b

\* the last k elements of a sequence (all of it when it is shorter)
LastK(q, k) == SubSeq(q, Len(q) - Min(Len(q), k) + 1, Len(q))

\* the payload is a JSON document that is not an object: a number, a
\* string, a list, null
IsNonObjectJson(p) == p.utf8 /\ p.json \notin {"invalid", "dict"}

RECURSIVE WithoutNonObject(_)
WithoutNonObject(q) ==
    IF q = << >> THEN << >>
    ELSE (IF IsNonObjectJson(Head(q)) THEN << >> ELSE << Head(q) >>)
         \o WithoutNonObject(Tail(q))

\* the payloads delivered on a topic that are objects or fail to parse
Parsable(topic) == WithoutNonObject(delivered[topic])

\* the value the code gives a payload that is an object or fails to parse:
\* the "value" member, None when the object has none, the text otherwise
ValueOf(p) ==
    IF p.utf8 /\ p.json = "dict" THEN (IF p.has THEN p.value ELSE None)
    ELSE Text(p.text)

\* the value the decoding contract of the specification gives a payload:
\* the "value" member when there is one, the text otherwise
ContractValueOf(p) ==
    IF p.utf8 /\ p.json = "dict" /\ p.has THEN p.value ELSE Text(p.text)

\* the value a message is taken to carry in C1 and C3: the one the code
\* decodes, and for a JSON document that is not an object, where the code
\* decodes none, the text the decoding contract falls back to
MessageValueOf(p) == IF IsNonObjectJson(p) THEN Text(p.text) ELSE ValueOf(p)

DeviceTypeOf(topic) == Split(topic)[3]
InstanceOf(topic) == Split(topic)[4]
NotificationTopics == { t \in Topics : IsNotification(Split(t)) }

\* the notification topics with the device type and field path of t
SameField(t) ==
    { u \in NotificationTopics :
        DeviceTypeOf(u) = DeviceTypeOf(t) /\ FieldPath(Split(u)) = FieldPath(Split(t)) }

\* C1: for every topic, after N messages on it were handed to _on_message,
\* its record has count = N and its history is the last min(N, 10) values
\* received, in arrival order; so the history never exceeds 10 entries and
\* count >= len(values).
C1_CountAndHistory ==
    \A t \in Topics :
        LET N == Len(delivered[t])
        IN  N > 0 =>
              /\ t \in DOMAIN topics
              /\ topics[t].count = N
              /\ Len(topics[t].values) = Min(N, HistMax)
              /\ topics[t].count >= Len(topics[t].values)
              /\ topics[t].values =
                    LastK([i \in 1..N |-> MessageValueOf(delivered[t][i])], HistMax)

\* What the code does keep of C1: the record counts the messages whose
\* payload is an object or fails to parse, and holds the last 10 of their
\* values in arrival order.
C1_RecordedHistory ==
    \A t \in Topics :
        LET ps == Parsable(t)
        IN  IF ps = << >> THEN t \notin DOMAIN topics
            ELSE /\ t \in DOMAIN topics
                 /\ topics[t].count = Len(ps)
                 /\ Len(topics[t].values) = Min(Len(ps), HistMax)
                 /\ topics[t].values =
                       LastK([i \in DOMAIN ps |-> ValueOf(ps[i])], HistMax)

\* a state in which the history has evicted its oldest entries
C1_Evicted ==
    /\ TBatt0Soc \in DOMAIN topics
    /\ topics[TBatt0Soc].count > HistMax
    /\ topics[TBatt0Soc].values[1] # ValueOf(delivered[TBatt0Soc][1])

\* C2: _on_message never lets an exception escape, whatever the payload,
\* and the record of the message's topic exists with every message counted.
C2_NeverRaises ==
    /\ exc = "none"
    /\ \A t \in Topics :
          delivered[t] # << >> =>
              t \in DOMAIN topics /\ topics[t].count = Len(delivered[t])

\* C3: for every message handed to _on_message on a notification topic of
\* at least 4 segments, device_types[segment 3] contains segment 4 and
\* measurements[segment 3][field path] contains the kind of its value.
C3_TaxonomyComplete ==
    \A t \in NotificationTopics :
        \A i \in 1..Len(delivered[t]) :
            /\ DeviceTypeOf(t) \in DOMAIN device_types
            /\ InstanceOf(t) \in device_types[DeviceTypeOf(t)]
            /\ DeviceTypeOf(t) \in DOMAIN measurements
            /\ FieldPath(Split(t)) \in DOMAIN measurements[DeviceTypeOf(t)]
            /\ ValueType(MessageValueOf(delivered[t][i]))
                  \in measurements[DeviceTypeOf(t)][FieldPath(Split(t))]

\* What the code does keep of C3: the taxonomy holds every message whose
\* payload is an object or fails to parse.
C3_ParsableIndexed ==
    \A t \in NotificationTopics :
        \A i \in DOMAIN Parsable(t) :
            /\ DeviceTypeOf(t) \in DOMAIN device_types
            /\ InstanceOf(t) \in device_types[DeviceTypeOf(t)]
            /\ DeviceTypeOf(t) \in DOMAIN measurements
            /\ FieldPath(Split(t)) \in DOMAIN measurements[DeviceTypeOf(t)]
            /\ ValueType(ValueOf(Parsable(t)[i]))
                  \in measurements[DeviceTypeOf(t)][FieldPath(Split(t))]

\* C4: the taxonomy holds only what notification topics of at least 4
\* segments brought, and a message of any other topic is nevertheless
\* recorded in the topic registry: its record exists and counts it.
C4_Filtering ==
    /\ \A d \in DOMAIN device_types : \A inst \in device_types[d] :
          \E t \in NotificationTopics :
              delivered[t] # << >> /\ DeviceTypeOf(t) = d /\ InstanceOf(t) = inst
    /\ \A d \in DOMAIN measurements : \A path \in DOMAIN measurements[d] :
          \E t \in NotificationTopics :
              delivered[t] # << >> /\ DeviceTypeOf(t) = d /\ FieldPath(Split(t)) = path
    /\ \A t \in Topics \ NotificationTopics :
          delivered[t] # << >> =>
              t \in DOMAIN topics /\ topics[t].count = Len(delivered[t])

\* What the code does keep of C4: the taxonomy comes from notification
\* topics only, and a filtered message is recorded when its payload is an
\* object or fails to parse.
C4_FilteringOfParsable ==
    /\ \A d \in DOMAIN device_types : \A inst \in device_types[d] :
          \E t \in NotificationTopics :
              Parsable(t) # << >> /\ DeviceTypeOf(t) = d /\ InstanceOf(t) = inst
    /\ \A d \in DOMAIN measurements : \A path \in DOMAIN measurements[d] :
          \E t \in NotificationTopics :
              Parsable(t) # << >> /\ DeviceTypeOf(t) = d /\ FieldPath(Split(t)) = path
    /\ \A t \in Topics \ NotificationTopics :
          Parsable(t) # << >> =>
              t \in DOMAIN topics /\ topics[t].count = Len(Parsable(t))

\* C10 as stated: an object without a "value" member decodes to the whole
\* payload as text, like a payload that fails to parse; only a present
\* "value" member yields that member's value and kind.
C10_AbsentIsText ==
    \A t \in Topics :
        /\ t \in DOMAIN topics =>
              topics[t].values =
                  LastK([i \in DOMAIN Parsable(t) |-> ContractValueOf(Parsable(t)[i])],
                        HistMax)
        /\ (t \in NotificationTopics /\ Parsable(t) # << >>) =>
              measurements[DeviceTypeOf(t)][FieldPath(Split(t))] =
                  UNION { { ValueType(ContractValueOf(Parsable(u)[i])) :
                              i \in DOMAIN Parsable(u) } : u \in SameField(t) }

\* C10 amended: an object without a "value" member decodes to None (kind
\* NoneType); the whole payload as text (kind str) is the value only when
\* UTF-8 decoding or JSON parsing fails; an object with a "value" member
\* yields that member's value and kind.
C10_AbsentIsNone ==
    \A t \in Topics :
        /\ t \in DOMAIN topics =>
              topics[t].values =
                  LastK([i \in DOMAIN Parsable(t) |-> ValueOf(Parsable(t)[i])], HistMax)
        /\ (t \in NotificationTopics /\ Parsable(t) # << >>) =>
              measurements[DeviceTypeOf(t)][FieldPath(Split(t))] =
                  UNION { { ValueType(ValueOf(Parsable(u)[i])) :
                              i \in DOMAIN Parsable(u) } : u \in SameField(t) }

\* an object without "value" and a payload that is not JSON were both
\* recorded on a notification topic: one as None, the other as text
C10_Witness ==
    /\ delivered[TBatt0Soc] = << PObjNoValue, PText >>
    /\ TBatt0Soc \in DOMAIN topics
    /\ topics[TBatt0Soc].values = << None, Text("hello") >>
    /\ measurements[<< "b" >>][<< "S" >>] = {"NoneType", "str"}

\* both explorers were handed the same collection of messages
SameMessages ==
    \A t \in Topics : \A p \in Payloads :
        Occurrences(delivered[t], p) = Occurrences(delivered2[t], p)

\* C6: two explorers handed the same collection of messages, in whatever
\* orders, have the same device_types and measurements, and their
\* generators return the same texts (for the same clock reading), whatever
\* the order in which the sets are enumerated.
C6_OrderIndependent ==
    SameMessages =>
        /\ device_types = other.device_types
        /\ measurements = other.measurements
        /\ \A now \in Clock :
              /\ \A q1 \in Enumerations(TopicPatterns(Ex)),
                    q2 \in Enumerations(TopicPatterns(other)) :
                     GenerateTelegrafConfig(Ex, settings, now, q1)
                        = GenerateTelegrafConfig(other, settings, now, q2)
              /\ \A k1 \in Enumerations(DOMAIN device_types),
                    k2 \in Enumerations(DOMAIN other.device_types) :
                     \A f1 \in InstanceEnumerations(Ex),
                        f2 \in InstanceEnumerations(other) :
                         GenerateOptimizedConfig(Ex, settings, now, k1, f1)
                            = GenerateOptimizedConfig(other, settings, now, k2, f2)

\* the two explorers were handed the same messages of two instances and two
\* kinds in opposite orders, and their topic registries differ
C6_Witness ==
    /\ SameMessages
    /\ delivered[TBatt0Soc] = << PObjInt, PText >>
    /\ delivered2[TBatt0Soc] = << PText, PObjInt >>
    /\ topics # other.topics
    /\ measurements[<< "b" >>][<< "S" >>] = {"int", "str"}

\* the interpolated strings of the lines of a text with the literal text k,
\* in the order of the lines
RECURSIVE ArgsOf(_, _)
ArgsOf(text, k) ==
    IF text = << >> THEN << >>
    ELSE (IF Head(text).k = k THEN << Head(text).a >> ELSE << >>)
         \o ArgsOf(Tail(text), k)

\* a text with the clock reading of its header line blanked
WithoutStamp(text) ==
    [i \in DOMAIN text |->
        IF text[i].k \in {"# Generated: {}", "# Auto-generated: {}"}
        THEN Ln(text[i].k) ELSE text[i]]

\* C5 as stated: with the explorer unchanged, two calls of
\* generate_telegraf_config return identical text, and two calls of
\* generate_optimized_config return identical text.
C5_ByteIdentical ==
    /\ prevBasic # NoOut => basicOut = prevBasic
    /\ prevOpt # NoOut => optOut = prevOpt

\* C5 amended: with the explorer unchanged, two calls of a generator return
\* texts that are identical but for the clock reading in the header line.
C5_IdenticalButStamp ==
    /\ prevBasic # NoOut => WithoutStamp(basicOut) = WithoutStamp(prevBasic)
    /\ prevOpt # NoOut => WithoutStamp(optOut) = WithoutStamp(prevOpt)

\* each generator was called twice on a taxonomy of two device types, and
\* the two texts of each differ (in the clock reading)
C5_Witness ==
    /\ DOMAIN device_types = {<< "b" >>, << "s" >>}
    /\ prevBasic # NoOut /\ prevBasic # basicOut
    /\ prevOpt # NoOut /\ prevOpt # optOut

\* the depths (segment counts) of the recorded topics
ObservedDepths == { Len(Split(t)) : t \in DOMAIN topics }

\* the depths of the topic parsing rules of a text
RuleDepths(text) ==
    { Len(Split(text[i].a)) : i \in { j \in DOMAIN text : text[j].k = RuleTopicLine(<< >>).k } }

\* C7 as stated: generate_telegraf_config emits a topic parsing rule for a
\* topic depth exactly when a topic of that depth was recorded.
C7_RulesFollowDepths ==
    basicOut # NoOut => RuleDepths(basicOut) = ObservedDepths

\* C7 amended: generate_telegraf_config emits the same three topic parsing
\* rules, for topics of 5, 6 and 7 segments, whatever topics were recorded.
C7_RulesFixed ==
    basicOut # NoOut =>
        /\ ArgsOf(basicOut, RuleTopicLine(<< >>).k) = << Rule5, Rule6, Rule7 >>
        /\ RuleDepths(basicOut) = {5, 6, 7}

\* the text was generated with only a 4-segment topic recorded
C7_Witness ==
    /\ basicOut # NoOut
    /\ DOMAIN topics = {TBatt0}
    /\ ObservedDepths = {4}

\* the positions of the ingestion block headers of a text
HeaderIdx(text) == { i \in DOMAIN text : text[i] = ConsumerHeader }

\* the ingestion block that starts at line i: up to the next block header
BlockAt(text, i) ==
    LET later == { j \in HeaderIdx(text) : j > i } \cup {Len(text) + 1}
        next == CHOOSE j \in later : \A x \in later : j <= x
    IN  SubSeq(text, i, next - 1)

\* N/<portal_id>/<device_type>/#
WildcardFor(d) == << "N", "/" >> \o portal_id \o << "/" >> \o d \o << "/", "#" >>

\* C8: generate_optimized_config emits one ingestion block per device type
\* of device_types, in sorted order, each subscribing to the one pattern
\* N/<portal_id>/<device_type>/# of its device type, with pairwise distinct
\* client ids; generate_telegraf_config emits one ingestion block whose
\* topics list holds one such pattern per device type.
C8_Blocks ==
    /\ optOut # NoOut =>
          LET names == ArgsOf(optOut, "  name_override = \"{}\"")
              ids == ArgsOf(optOut, ClientIdLine(<< >>).k)
          IN  /\ Cardinality(HeaderIdx(optOut)) = Cardinality(DOMAIN device_types)
              /\ Len(names) = Cardinality(DOMAIN device_types)
              /\ { names[i] : i \in DOMAIN names } = DOMAIN device_types
              /\ IsAscending(names)
              /\ Len(ids) = Len(names)
              /\ \A i, j \in DOMAIN ids : i # j => ids[i] # ids[j]
              /\ \A i \in HeaderIdx(optOut) :
                    LET block == BlockAt(optOut, i)
                        name == ArgsOf(block, "  name_override = \"{}\"")
                    IN  /\ Len(name) = 1
                        /\ ArgsOf(block, TopicLine(<< >>).k) = << WildcardFor(name[1]) >>
    /\ basicOut # NoOut =>
          LET patterns == ArgsOf(basicOut, TopicLine(<< >>).k)
          IN  /\ Cardinality(HeaderIdx(basicOut)) = 1
              /\ Len(patterns) = Cardinality(DOMAIN device_types)
              /\ { patterns[i] : i \in DOMAIN patterns }
                    = { WildcardFor(d) : d \in DOMAIN device_types }

\* both texts were generated from a taxonomy of two device types
C8_Witness ==
    /\ DOMAIN device_types = {<< "b" >>, << "s" >>}
    /\ basicOut # NoOut
    /\ optOut # NoOut

\* both texts were generated from an empty taxonomy: no block, no pattern
C8_EmptyTaxonomy ==
    (DOMAIN device_types = {} /\ basicOut # NoOut /\ optOut # NoOut) =>
        /\ HeaderIdx(optOut) = {}
        /\ ArgsOf(basicOut, TopicLine(<< >>).k) = << >>

\* the ways the sampling loop of run() ends
LoopEndings == {"timer", "interrupt", "refused"}

\* C9: however the sampling loop ended, once run() has returned the
\* network thread is stopped and the connection released; and from
\* loop_stop() on, through print_report and save_report, no message is
\* ingested: topics, device_types, measurements and message_count stay as
\* they were at the stop.
C9_SessionOrdering ==
    /\ []((pc \in AfterRun /\ stopCause \in LoopEndings) =>
              (~loopAlive /\ link = "closed"))
    /\ [][(pc \in ({"stopped"} \cup AfterRun)) => UNCHANGED explorerVars]_vars

\* a session ended by an interrupt after messages were ingested, whose
\* reports were generated and saved
C9_Witness ==
    /\ pc = "saved"
    /\ stopCause = "interrupt"
    /\ message_count = MaxMsgs
    /\ DOMAIN device_types # {}
    /\ basicOut # NoOut
    /\ optOut # NoOut

\* sessions ended by the timer and by a refused connection reach the reports
\* too
C9_OtherEndings ==
    ~(pc = "saved" /\ stopCause = "refused" /\ message_count > 0)

(***************************************************************************)
(* C11.                                                                    *)
(***************************************************************************)
\* the fields of the taxonomy that have more than one kind tag
MixedFields ==
    { k \in FieldKeys(Ex) : Cardinality(measurements[k[1]][k[2]]) > 1 }

\* a report with the kind tags of its field-path lines left out
KindsBlanked(text) ==
    [i \in DOMAIN text |->
        IF text[i].k = "    {a}: [{b}]" THEN [text[i] EXCEPT !.b = << >>]
        ELSE text[i]]

\* the device types of the "DEVICE TYPES FOUND" section of a report, in
\* the order of its lines
ReportDeviceTypes(text) ==
    LET lines == SelectSeq(text, LAMBDA l : l.k = "  {a}: {b}")
    IN  [i \in DOMAIN lines |-> lines[i].a]

\* the topics of the "SAMPLE VALUES" section of a report, in the order of
\* its lines
ReportTopics(text) ==
    LET lines == SelectSeq(text, LAMBDA l : l.k = "  {a}")
    IN  [i \in DOMAIN lines |-> lines[i].a]

\* C11 (Report determinism): for a fixed final registry and taxonomy,
\* print_report prints the same text on every run: two reports of the same
\* state are equal.
C11_ReportIdentical == (prevReport # NoOut) => (reportOut = prevReport)

\* C11, apart from the order of the kind tags: two reports of the same
\* state are equal once the kind tags are left out, and equal as they are
\* when no field path has more than one kind tag; device types and topics
\* are listed in ascending order.
C11_IdenticalButKindOrder ==
    (prevReport # NoOut) =>
        /\ KindsBlanked(reportOut) = KindsBlanked(prevReport)
        /\ (MixedFields = {}) => (reportOut = prevReport)
        /\ IsAscending(ReportDeviceTypes(reportOut))
        /\ IsAscending(ReportTopics(reportOut))
        /\ Len(ReportDeviceTypes(reportOut)) = Cardinality(DOMAIN device_types)

\* two reports of a state in which a field path has two kind tags differ
C11_KindOrderShows ==
    /\ prevReport # NoOut
    /\ MixedFields # {}
    /\ reportOut # prevReport
    /\ Len(ReportTopics(reportOut)) > 1

(***************************************************************************)
(* C12.                                                                    *)
(***************************************************************************)
\* the sum of count over the topic records tps[t], t in S
RECURSIVE SumOfCounts(_, _)
SumOfCounts(tps, S) ==
    IF S = {} THEN 0
    ELSE LET t == CHOOSE x \in S : TRUE
         IN  tps[t].count + SumOfCounts(tps, S \ {t})

\* the topics a message was delivered on
DeliveredTopics == { t \in Topics : delivered[t] # << >> }

\* how many of the delivered messages held a JSON document that is not an
\* object
RECURSIVE NonObjectDelivered(_)
NonObjectDelivered(S) ==
    IF S = {} THEN 0
    ELSE LET t == CHOOSE x \in S : TRUE
         IN  (Len(delivered[t]) - Len(WithoutNonObject(delivered[t])))
               + NonObjectDelivered(S \ {t})

\* C12 (Message accounting): in every reachable state message_count equals
\* the sum of count over all topic records and there is a record for every
\* topic a message was delivered on; the summary's total_messages is the
\* total of the per-topic counts and its total_topics the number of
\* distinct topics delivered.
C12_Accounting ==
    /\ message_count = SumOfCounts(topics, DOMAIN topics)
    /\ Cardinality(DOMAIN topics) = Cardinality(DeliveredTopics)
    /\ (pc = "saved") =>
          /\ summaryOut.total_messages = SumOfCounts(topics, DOMAIN topics)
          /\ summaryOut.total_topics = Cardinality(DeliveredTopics)

\* C12, with the messages whose handler raised set apart: message_count is
\* the sum of the counts plus the number of delivered messages that held a
\* non-object JSON document, the records are those of the topics with a
\* message of another kind, and the summary reports message_count and the
\* number of records.
C12_AccountingOfStored ==
    /\ message_count
          = SumOfCounts(topics, DOMAIN topics) + NonObjectDelivered(Topics)
    /\ DOMAIN topics
          = { t \in Topics : WithoutNonObject(delivered[t]) # << >> }
    /\ (pc = "saved") =>
          /\ summaryOut.total_messages = message_count
          /\ summaryOut.total_topics = Cardinality(DOMAIN topics)

\* a summary was written after messages of both kinds were delivered
C12_SummaryWritten ==
    /\ pc = "saved"
    /\ NonObjectDelivered(Topics) > 0
    /\ SumOfCounts(topics, DOMAIN topics) > 0
    /\ summaryOut.total_messages > SumOfCounts(topics, DOMAIN topics)

====
